---- MODULE Spec2Model ----
(***************************************************************************)
(* Model of main.py of SGAElectionVerification: the ballot loop            *)
(* (iterate_votes / verify_vote / add_votes), the school lookups, and the  *)
(* seat allocation (sort_votes / group_votes_by_num / determine_elected).  *)
(*                                                                         *)
(* Python strings are sequences of one-character strings, so that          *)
(* str.split, str.lower and str() are computed and not assumed.            *)
(* A dict is a sequence of entries in insertion order.                     *)
(* None for an optional int or list is <<>>, a value x is <<x>>.           *)
(***************************************************************************)
EXTENDS Integers, Sequences, FiniteSets, TLC

VARIABLES school, num_seats, columns, votes, voting_record, voter_cwids,
          row, outcome, ballots, pc, votes_by_num, elected, remaining,
          tied_elected

vars == <<school, num_seats, columns, votes, voting_record, voter_cwids,
          row, outcome, ballots, pc, votes_by_num, elected, remaining,
          tied_elected>>

----------------------------------------------------------------------------
(* Bounds *)

MaxBallots == 4

MaxSeats == 1

MaxElectSeats == 3

MaxPopulated == 2

MaxCands == 3

MaxCount == 5

----------------------------------------------------------------------------
(* Python values *)

None == <<>>

Some(x) == <<x>>

NoSchool == "None"

AttributeError == "AttributeError"

NaN == [type |-> "float"]

PyStr(s) == [type |-> "str", val |-> s]

PyNone == [type |-> "NoneType"]

isinstance_str(x) == x.type = "str"

Digit(d) ==
  CASE d = 0 -> "0" [] d = 1 -> "1" [] d = 2 -> "2" [] d = 3 -> "3"
    [] d = 4 -> "4" [] d = 5 -> "5" [] d = 6 -> "6" [] d = 7 -> "7"
    [] d = 8 -> "8" [] d = 9 -> "9"

RECURSIVE str(_)
str(n) == IF n < 10 THEN <<Digit(n)>> ELSE str(n \div 10) \o <<Digit(n % 10)>>

LowerChar(c) ==
  CASE c = "C" -> "c" [] c = "S" -> "s" [] c = "F" -> "f" [] c = "E" -> "e"
    [] c = "H" -> "h" [] OTHER -> c

lower(s) == [i \in 1..Len(s) |-> LowerChar(s[i])]

HasPrefix(s, d) == Len(s) >= Len(d) /\ SubSeq(s, 1, Len(d)) = d

RECURSIVE split(_, _)
split(s, d) ==
  IF \E i \in 1..Len(s) : HasPrefix(SubSeq(s, i, Len(s)), d)
  THEN LET i == CHOOSE j \in 1..Len(s) :
                  /\ HasPrefix(SubSeq(s, j, Len(s)), d)
                  /\ \A k \in 1..(j - 1) : ~HasPrefix(SubSeq(s, k, Len(s)), d)
       IN <<SubSeq(s, 1, i - 1)>> \o split(SubSeq(s, i + Len(d), Len(s)), d)
  ELSE <<s>>

----------------------------------------------------------------------------
(* Configuration and input tables *)

Schools == {"ses", "sob", "sse", "hass"}

candidate_column_name == "Nominees"

cwid_column == "Campus Wide ID (CWID)"

AllColumns == {candidate_column_name, candidate_column_name \o ".1",
               candidate_column_name \o ".2", candidate_column_name \o ".3"}

ColumnSets == {AllColumns} \cup {AllColumns \ {c} : c \in AllColumns}

school_majors ==
  << <<"ses",  {<<"c", "s">>, <<"e", "e">>}>>,
     <<"sob",  {<<"f", "i", "n">>}>>,
     <<"sse",  {<<"e", "m">>}>>,
     <<"hass", {<<"h", "i", "s", "t">>}>> >>

data_df ==
  << [CWID |-> 1,  Major |-> PyStr(<<"C", "S">>)],
     [CWID |-> 2,  Major |-> PyStr(<<"e", "e">>)],
     [CWID |-> 3,  Major |-> PyStr(<<"F", "i", "n">>)],
     [CWID |-> 4,  Major |-> PyStr(<<"e", "m">>)],
     [CWID |-> 5,  Major |-> PyStr(<<"H", "i", "s", "t">>)],
     [CWID |-> 6,  Major |-> PyStr(<<"a", "r", "t">>)],
     [CWID |-> 7,  Major |-> NaN] >>

BallotCWIDs == {1, 2, 3, 4, 5, 6, 7, 10}

CandidateStrings ==
  { <<"A">>,
    <<"A", ",", " ", "B">>,
    <<"B", ",", " ", "B">>,
    <<"A", ",", "B">> }

Rows(cols) ==
  { [c \in cols \cup {cwid_column} |->
        IF c = cwid_column THEN id
        ELSE IF c \in P THEN PyStr(s) ELSE NaN] :
      id \in BallotCWIDs,
      P \in {Q \in SUBSET AllColumns : Cardinality(Q) <= MaxPopulated},
      s \in CandidateStrings }

NoRow == [c \in {} |-> NaN]

----------------------------------------------------------------------------
(* initialize_setups *)

initialize_setups ==
  [votes |-> <<>>,
   voting_record |-> [valid |-> 0, invalid |-> 0, wrong_school |-> 0,
                      duplicate |-> 0],
   voter_cwids |-> {}]

----------------------------------------------------------------------------
(* The tally: an insertion-ordered dict candidate -> count *)

Keys(d) == {d[i].candidate : i \in 1..Len(d)}

Get(d, c) ==
  IF c \in Keys(d)
  THEN d[CHOOSE i \in 1..Len(d) : d[i].candidate = c].count
  ELSE 0

Put(d, c, n) ==
  IF c \in Keys(d)
  THEN [i \in 1..Len(d) |->
          IF d[i].candidate = c THEN [candidate |-> c, count |-> n] ELSE d[i]]
  ELSE Append(d, [candidate |-> c, count |-> n])

(* Faulty variants of add_votes: valid counted once per ballot; a repeated  *)
(* candidate's count not incremented.                                      *)
RECURSIVE tally_only(_, _)
tally_only(candidate_list, v) ==
  IF candidate_list = <<>> THEN v
  ELSE tally_only(Tail(candidate_list),
                  Put(v, Head(candidate_list), Get(v, Head(candidate_list)) + 1))

add_votes_once_per_ballot(candidate_list, v, vr) ==
  [votes |-> tally_only(candidate_list, v),
   voting_record |-> IF candidate_list = <<>> THEN vr
                     ELSE [vr EXCEPT !.valid = @ + 1]]

RECURSIVE add_votes_no_increment(_, _, _)
add_votes_no_increment(candidate_list, v, vr) ==
  IF candidate_list = <<>>
  THEN [votes |-> v, voting_record |-> vr]
  ELSE add_votes_no_increment(Tail(candidate_list),
                              Put(v, Head(candidate_list), 1),
                              [vr EXCEPT !.valid = @ + 1])

RECURSIVE add_votes(_, _, _)
add_votes(candidate_list, v, vr) ==
  IF candidate_list = <<>>
  THEN [votes |-> v, voting_record |-> vr]
  ELSE LET candidate == Head(candidate_list)
           vr1 == [vr EXCEPT !.valid = @ + 1]
           v1 == IF candidate \notin Keys(v)
                 THEN Put(v, candidate, 1)
                 ELSE Put(v, candidate, Get(v, candidate) + 1)
       IN add_votes(Tail(candidate_list), v1, vr1)

----------------------------------------------------------------------------
(* School lookups *)

RECURSIVE school_scan(_, _, _)
school_scan(major, data_dict, i) ==
  IF i > Len(data_dict) THEN NoSchool
  ELSE IF major \in data_dict[i][2] THEN data_dict[i][1]
  ELSE school_scan(major, data_dict, i + 1)

school_by_major(major, data_dict) ==
  IF major.type = "NoneType" THEN NoSchool
  ELSE school_scan(lower(major.val), data_dict, 1)

school_by_cwid(cwid, df) ==
  LET subset == SelectSeq(df, LAMBDA rec : rec.CWID = cwid)
  IN IF subset # <<>>
     THEN IF isinstance_str(subset[1].Major)
          THEN school_by_major(PyStr(lower(subset[1].Major.val)), school_majors)
          ELSE AttributeError
     ELSE school_by_major(PyNone, school_majors)

(* Faulty variant of nominee_columns: two suffixes exchanged.               *)
nominee_columns_swapped(ccn) ==
  << <<ccn, "ses">>, <<ccn \o ".1", "sse">>, <<ccn \o ".2", "sob">>,
     <<ccn \o ".3", "hass">> >>

nominee_columns(ccn) ==
  << <<ccn, "ses">>, <<ccn \o ".1", "sob">>, <<ccn \o ".2", "sse">>,
     <<ccn \o ".3", "hass">> >>

RECURSIVE nominee_scan(_, _, _)
nominee_scan(r, schools, i) ==
  IF i > Len(schools)
  THEN [raised |-> FALSE, school |-> NoSchool, candidates |-> PyNone]
  ELSE IF schools[i][1] \notin DOMAIN r
  THEN [raised |-> TRUE, school |-> NoSchool, candidates |-> PyNone]
  ELSE IF isinstance_str(r[schools[i][1]])
  THEN [raised |-> FALSE, school |-> schools[i][2],
        candidates |-> r[schools[i][1]]]
  ELSE nominee_scan(r, schools, i + 1)

get_nominees_school(r, ccn) == nominee_scan(r, nominee_columns(ccn), 1)

----------------------------------------------------------------------------
(* verify_vote: the result is the state it leaves and how the call ended *)

(* Faulty variants of verify_vote: the duplicate test looks the CWID up     *)
(* without str(), so it never matches; wrong_school needs both schools to  *)
(* differ; the voter is recorded before the school test.                   *)
verify_vote_no_str(r, v, vr, vc, df, sch, ccn) ==
  LET voter_school == school_by_cwid(r[cwid_column], df)
      nominees == get_nominees_school(r, ccn)
      nominee_school == nominees.school
      candidate_list == nominees.candidates
      same == [outcome |-> "raised", votes |-> v, voting_record |-> vr,
               voter_cwids |-> vc]
  IN IF voter_school = AttributeError THEN same
     ELSE IF nominees.raised THEN same
     ELSE IF candidate_list.type = "NoneType" \/ nominee_school = NoSchool
     THEN [same EXCEPT !.outcome = "invalid",
                       !.voting_record = [vr EXCEPT !.invalid = @ + 1]]
     ELSE IF nominee_school # sch \/ voter_school # sch
     THEN [same EXCEPT !.outcome = "wrong_school",
                       !.voting_record = [vr EXCEPT !.wrong_school = @ + 1]]
     ELSE LET added == add_votes(split(candidate_list.val, <<",", " ">>), v, vr)
          IN [outcome |-> "valid", votes |-> added.votes,
              voting_record |-> added.voting_record,
              voter_cwids |-> vc \cup {str(r[cwid_column])}]

verify_vote_both_differ(r, v, vr, vc, df, sch, ccn) ==
  LET voter_school == school_by_cwid(r[cwid_column], df)
      nominees == get_nominees_school(r, ccn)
      nominee_school == nominees.school
      candidate_list == nominees.candidates
      same == [outcome |-> "raised", votes |-> v, voting_record |-> vr,
               voter_cwids |-> vc]
  IN IF voter_school = AttributeError THEN same
     ELSE IF nominees.raised THEN same
     ELSE IF candidate_list.type = "NoneType" \/ nominee_school = NoSchool
     THEN [same EXCEPT !.outcome = "invalid",
                       !.voting_record = [vr EXCEPT !.invalid = @ + 1]]
     ELSE IF nominee_school # sch /\ voter_school # sch
     THEN [same EXCEPT !.outcome = "wrong_school",
                       !.voting_record = [vr EXCEPT !.wrong_school = @ + 1]]
     ELSE IF str(r[cwid_column]) \in vc
     THEN [same EXCEPT !.outcome = "duplicate",
                       !.voting_record = [vr EXCEPT !.duplicate = @ + 1]]
     ELSE LET added == add_votes(split(candidate_list.val, <<",", " ">>), v, vr)
          IN [outcome |-> "valid", votes |-> added.votes,
              voting_record |-> added.voting_record,
              voter_cwids |-> vc \cup {str(r[cwid_column])}]

verify_vote_records_early(r, v, vr, vc, df, sch, ccn) ==
  LET voter_school == school_by_cwid(r[cwid_column], df)
      nominees == get_nominees_school(r, ccn)
      nominee_school == nominees.school
      candidate_list == nominees.candidates
      same == [outcome |-> "raised", votes |-> v, voting_record |-> vr,
               voter_cwids |-> vc]
  IN IF voter_school = AttributeError THEN same
     ELSE IF nominees.raised THEN same
     ELSE IF candidate_list.type = "NoneType" \/ nominee_school = NoSchool
     THEN [same EXCEPT !.outcome = "invalid",
                       !.voting_record = [vr EXCEPT !.invalid = @ + 1]]
     ELSE IF str(r[cwid_column]) \in vc
     THEN [same EXCEPT !.outcome = "duplicate",
                       !.voting_record = [vr EXCEPT !.duplicate = @ + 1]]
     ELSE IF nominee_school # sch \/ voter_school # sch
     THEN [same EXCEPT !.outcome = "wrong_school",
                       !.voting_record = [vr EXCEPT !.wrong_school = @ + 1],
                       !.voter_cwids = vc \cup {str(r[cwid_column])}]
     ELSE LET added == add_votes(split(candidate_list.val, <<",", " ">>), v, vr)
          IN [outcome |-> "valid", votes |-> added.votes,
              voting_record |-> added.voting_record,
              voter_cwids |-> vc \cup {str(r[cwid_column])}]

verify_vote(r, v, vr, vc, df, sch, ccn) ==
  LET voter_school == school_by_cwid(r[cwid_column], df)
      nominees == get_nominees_school(r, ccn)
      nominee_school == nominees.school
      candidate_list == nominees.candidates
      same == [outcome |-> "raised", votes |-> v, voting_record |-> vr,
               voter_cwids |-> vc]
  IN IF voter_school = AttributeError THEN same
     ELSE IF nominees.raised THEN same
     ELSE IF candidate_list.type = "NoneType" \/ nominee_school = NoSchool
     THEN [same EXCEPT !.outcome = "invalid",
                       !.voting_record = [vr EXCEPT !.invalid = @ + 1]]
     ELSE IF nominee_school # sch \/ voter_school # sch
     THEN [same EXCEPT !.outcome = "wrong_school",
                       !.voting_record = [vr EXCEPT !.wrong_school = @ + 1]]
     ELSE IF str(r[cwid_column]) \in vc
     THEN [same EXCEPT !.outcome = "duplicate",
                       !.voting_record = [vr EXCEPT !.duplicate = @ + 1]]
     ELSE LET added == add_votes(split(candidate_list.val, <<",", " ">>), v, vr)
          IN [outcome |-> "valid", votes |-> added.votes,
              voting_record |-> added.voting_record,
              voter_cwids |-> vc \cup {str(r[cwid_column])}]

----------------------------------------------------------------------------
(* Seat allocation *)

MaxOf(S) == CHOOSE m \in S : \A x \in S : x <= m

Remove(s, i) == SubSeq(s, 1, i - 1) \o SubSeq(s, i + 1, Len(s))

RECURSIVE sort_votes(_)
sort_votes(v) ==
  IF v = <<>> THEN <<>>
  ELSE LET m == MaxOf({v[i].count : i \in 1..Len(v)})
           first == CHOOSE i \in 1..Len(v) :
                      /\ v[i].count = m
                      /\ \A j \in 1..(i - 1) : v[j].count # m
       IN <<v[first]>> \o sort_votes(Remove(v, first))

RECURSIVE group_votes_by_num(_)
group_votes_by_num(v) ==
  IF v = <<>> THEN [n \in {} |-> <<>>]
  ELSE LET before == group_votes_by_num(SubSeq(v, 1, Len(v) - 1))
           key == v[Len(v)].candidate
           value == v[Len(v)].count
       IN [n \in DOMAIN before \cup {value} |->
             IF n = value
             THEN (IF n \in DOMAIN before THEN before[n] ELSE <<>>) \o <<key>>
             ELSE before[n]]

RECURSIVE sorted_reverse(_)
sorted_reverse(S) ==
  IF S = {} THEN <<>> ELSE <<MaxOf(S)>> \o sorted_reverse(S \ {MaxOf(S)})

RECURSIVE elect_loop(_, _, _, _)
elect_loop(keys, by_num, seats, chosen) ==
  IF keys = <<>>
  THEN [elected |-> chosen, remaining |-> None, tied_elected |-> None]
  ELSE LET value == by_num[Head(keys)]
       IN IF Len(value) <= seats - Len(chosen)
          THEN elect_loop(Tail(keys), by_num, seats, chosen \o value)
          ELSE [elected |-> chosen,
                remaining |-> Some(seats - Len(chosen)),
                tied_elected |-> Some(value)]

(* Faulty variants of determine_elected: remaining always computed; the    *)
(* loop not left at the first group that does not fit; < for <=.           *)
determine_elected_always_remaining(by_num, seats) ==
  LET result == elect_loop(sorted_reverse(DOMAIN by_num), by_num, seats, <<>>)
  IN [result EXCEPT !.remaining = Some(seats - Len(result.elected))]

RECURSIVE elect_loop_no_break(_, _, _, _)
elect_loop_no_break(keys, by_num, seats, result) ==
  IF keys = <<>> THEN result
  ELSE LET value == by_num[Head(keys)]
       IN IF Len(value) <= seats - Len(result.elected)
          THEN elect_loop_no_break(Tail(keys), by_num, seats,
                 [result EXCEPT !.elected = @ \o value])
          ELSE elect_loop_no_break(Tail(keys), by_num, seats,
                 [result EXCEPT !.remaining = Some(seats - Len(result.elected)),
                                !.tied_elected = Some(value)])

determine_elected_no_break(by_num, seats) ==
  elect_loop_no_break(sorted_reverse(DOMAIN by_num), by_num, seats,
    [elected |-> <<>>, remaining |-> None, tied_elected |-> None])

RECURSIVE elect_loop_strict(_, _, _, _)
elect_loop_strict(keys, by_num, seats, chosen) ==
  IF keys = <<>>
  THEN [elected |-> chosen, remaining |-> None, tied_elected |-> None]
  ELSE LET value == by_num[Head(keys)]
       IN IF Len(value) < seats - Len(chosen)
          THEN elect_loop_strict(Tail(keys), by_num, seats, chosen \o value)
          ELSE [elected |-> chosen,
                remaining |-> Some(seats - Len(chosen)),
                tied_elected |-> Some(value)]

determine_elected_strict(by_num, seats) ==
  elect_loop_strict(sorted_reverse(DOMAIN by_num), by_num, seats, <<>>)

determine_elected(by_num, seats) ==
  elect_loop(sorted_reverse(DOMAIN by_num), by_num, seats, <<>>)

----------------------------------------------------------------------------
(* The program: main *)

NoBallots == [valid |-> 0, invalid |-> 0, wrong_school |-> 0, duplicate |-> 0]

Processed == ballots.valid + ballots.invalid + ballots.wrong_school
             + ballots.duplicate

Init ==
  /\ school \in Schools
  /\ num_seats \in 1..MaxSeats
  /\ columns \in ColumnSets
  /\ votes = initialize_setups.votes
  /\ voting_record = initialize_setups.voting_record
  /\ voter_cwids = initialize_setups.voter_cwids
  /\ row = NoRow
  /\ outcome = "none"
  /\ ballots = NoBallots
  /\ pc = "iterate_votes"
  /\ votes_by_num = [n \in {} |-> <<>>]
  /\ elected = <<>>
  /\ remaining = None
  /\ tied_elected = None

iterate_votes ==
  /\ pc = "iterate_votes"
  /\ Processed < MaxBallots
  /\ \E r \in Rows(columns) :
       LET res == verify_vote(r, votes, voting_record, voter_cwids, data_df,
                              school, candidate_column_name)
       IN /\ row' = r
          /\ outcome' = res.outcome
          /\ votes' = res.votes
          /\ voting_record' = res.voting_record
          /\ voter_cwids' = res.voter_cwids
          /\ ballots' = IF res.outcome = "raised" THEN ballots
                        ELSE [ballots EXCEPT ![res.outcome] = @ + 1]
          /\ pc' = IF res.outcome = "raised" THEN "raised" ELSE "returned"
  /\ UNCHANGED <<school, num_seats, columns, votes_by_num, elected, remaining,
                 tied_elected>>

(* Back at the head of the for loop the row of the finished iteration is    *)
(* dead: it is overwritten before it is read again.                        *)
next_row ==
  /\ pc = "returned"
  /\ pc' = "iterate_votes"
  /\ row' = NoRow
  /\ outcome' = "none"
  /\ UNCHANGED <<school, num_seats, columns, votes, voting_record,
                 voter_cwids, ballots, votes_by_num, elected, remaining,
                 tied_elected>>

allocate_seats ==
  /\ pc = "iterate_votes"
  /\ LET sorted == sort_votes(votes)
         grouped == group_votes_by_num(sorted)
         result == determine_elected(grouped, num_seats)
     IN /\ votes' = sorted
        /\ votes_by_num' = grouped
        /\ elected' = result.elected
        /\ remaining' = result.remaining
        /\ tied_elected' = result.tied_elected
  /\ pc' = "done"
  /\ UNCHANGED <<school, num_seats, columns, voting_record, voter_cwids, row,
                 outcome, ballots>>

Next == iterate_votes \/ next_row \/ allocate_seats

Spec == Init /\ [][Next]_vars

(* The seat allocation on its own: the tally is an input drawn from the     *)
(* tallies of up to MaxCands candidates with 1..MaxCount votes each.       *)

CandidateNames == {<<"A">>, <<"B">>, <<"C">>, <<"D">>}

Tallies ==
  { t \in UNION { [1..n -> [candidate : CandidateNames, count : 1..MaxCount]] :
                  n \in 0..MaxCands } :
      \A i, j \in 1..Len(t) : i # j => t[i].candidate # t[j].candidate }

InitElect ==
  /\ school \in {"ses"}
  /\ num_seats \in 1..MaxElectSeats
  /\ columns = AllColumns
  /\ votes \in Tallies
  /\ voting_record = initialize_setups.voting_record
  /\ voter_cwids = initialize_setups.voter_cwids
  /\ row = NoRow
  /\ outcome = "none"
  /\ ballots = NoBallots
  /\ pc = "iterate_votes"
  /\ votes_by_num = [n \in {} |-> <<>>]
  /\ elected = <<>>
  /\ remaining = None
  /\ tied_elected = None

NextElect == allocate_seats

SpecElect == InitElect /\ [][NextElect]_vars

TypeOK ==
  /\ outcome \in {"none", "valid", "invalid", "wrong_school", "duplicate",
                  "raised"}
  /\ pc \in {"iterate_votes", "returned", "raised", "done"}

----------------------------------------------------------------------------
(* Vocabulary of the properties *)

Sum(vr) == vr.valid + vr.invalid + vr.wrong_school + vr.duplicate

RECURSIVE TotalVotes(_)
TotalVotes(v) == IF v = <<>> THEN 0 ELSE Head(v).count + TotalVotes(Tail(v))

Occurrences(list, c) == Cardinality({i \in 1..Len(list) : list[i] = c})

Range(list) == {list[i] : i \in 1..Len(list)}

(* verify_vote was called in this step / was called and returned *)
Called == pc = "iterate_votes" /\ pc' \in {"returned", "raised"}

Returned == pc = "iterate_votes" /\ pc' = "returned"

ColumnOrder ==
  <<candidate_column_name, candidate_column_name \o ".1",
    candidate_column_name \o ".2", candidate_column_name \o ".3">>

FixedOrder == <<"ses", "sob", "sse", "hass">>

IsStrAt(r, i) == ColumnOrder[i] \in DOMAIN r /\ r[ColumnOrder[i]].type = "str"

(* Position of the first nominee field holding a string, every field       *)
(* scanned before it being a column of the table; 0 when there is none.    *)
FirstPopulated(r) ==
  IF \E i \in 1..4 : IsStrAt(r, i)
                     /\ \A j \in 1..(i - 1) : ColumnOrder[j] \in DOMAIN r
                                              /\ ~IsStrAt(r, j)
  THEN CHOOSE i \in 1..4 : IsStrAt(r, i)
                           /\ \A j \in 1..(i - 1) : ColumnOrder[j] \in DOMAIN r
                                                    /\ ~IsStrAt(r, j)
  ELSE 0

VoterSchool(r) == school_by_cwid(r[cwid_column], data_df)

----------------------------------------------------------------------------
(* C1 as stated: after every prefix of the ballots the four counters of    *)
(* voting_record sum to the number of ballot rows processed.               *)
C1_SumEqualsRows == Sum(voting_record) = Processed

(* C1 amended: invalid, wrong_school and duplicate count ballot rows, but  *)
(* valid counts the candidate names of the accepted ballots, so the sum is *)
(* the rows processed, minus the accepted ballots, plus the names they     *)
(* listed; it is never below the number of rows processed.                 *)
C1_SumCountsNames ==
  /\ voting_record.invalid = ballots.invalid
  /\ voting_record.wrong_school = ballots.wrong_school
  /\ voting_record.duplicate = ballots.duplicate
  /\ voting_record.valid = TotalVotes(votes)
  /\ Sum(voting_record) = Processed - ballots.valid + TotalVotes(votes)
  /\ Sum(voting_record) >= Processed

C1_Witness ==
  /\ pc = "returned"
  /\ outcome = "valid"
  /\ Processed >= 2
  /\ Sum(voting_record) > Processed

(* C2 as stated: a ballot whose voter CWID was already accepted is         *)
(* classified duplicate whatever its nominee fields contain.               *)
C2_LaterAlwaysDuplicate ==
  [][(Returned /\ str(row'[cwid_column]) \in voter_cwids)
       => /\ outcome' = "duplicate"
          /\ voting_record'.duplicate = voting_record.duplicate + 1]_vars

(* C2 amended: a later ballot of an accepted voter is classified duplicate *)
(* when its first populated nominee field is the target school's, whatever *)
(* names it lists; with no populated field it is invalid and with another  *)
(* school's field wrong_school; it is never accepted as valid again.       *)
C2_LaterDuplicateIfEligible ==
  [][(Returned /\ str(row'[cwid_column]) \in voter_cwids)
       => /\ outcome' # "valid"
          /\ votes' = votes
          /\ voter_cwids' = voter_cwids
          /\ FirstPopulated(row') = 0 => outcome' = "invalid"
          /\ (FirstPopulated(row') # 0
              /\ FixedOrder[FirstPopulated(row')] # school)
               => outcome' = "wrong_school"
          /\ (FirstPopulated(row') # 0
              /\ FixedOrder[FirstPopulated(row')] = school)
               => /\ outcome' = "duplicate"
                  /\ voting_record' =
                       [voting_record EXCEPT !.duplicate = @ + 1]]_vars

C2_Witness ==
  /\ pc = "returned"
  /\ outcome = "duplicate"
  /\ str(row[cwid_column]) \in voter_cwids
  /\ ballots.valid = 1
  /\ ballots.duplicate = 2

(* C3: a ballot classified valid whose candidate string splits on ", "     *)
(* into k names adds k to valid and 1 per occurrence to the tally of each  *)
(* named candidate, changes no other tally, and no tally ever decreases.   *)
C3_ValidAddsPerName ==
  [][/\ \A c \in Keys(votes) : Get(votes', c) >= Get(votes, c)
     /\ (Returned /\ outcome' = "valid")
          => LET names == split(row'[ColumnOrder[FirstPopulated(row')]].val,
                                <<",", " ">>)
             IN /\ voting_record' =
                     [voting_record EXCEPT !.valid = @ + Len(names)]
                /\ Keys(votes') = Keys(votes) \cup Range(names)
                /\ \A c \in Keys(votes') :
                     Get(votes', c) = Get(votes, c) + Occurrences(names, c)]_vars

C3_Witness ==
  /\ pc = "returned"
  /\ outcome = "valid"
  /\ FirstPopulated(row) # 0
  /\ row[ColumnOrder[FirstPopulated(row)]].val = <<"B", ",", " ", "B">>
  /\ Get(votes, <<"B">>) = 3
  /\ Get(votes, <<"A">>) = 1
  /\ voting_record.valid = 4
  /\ ballots.valid = 2

(* C6 as stated: whatever the target school, a ballot whose first          *)
(* populated nominee field is the primary (unsuffixed) one is classified   *)
(* valid when its voter belongs to the target school and has not voted.    *)
C6_PrimaryIsTarget ==
  [][(/\ Returned
      /\ FirstPopulated(row') = 1
      /\ VoterSchool(row') = school
      /\ str(row'[cwid_column]) \notin voter_cwids)
       => outcome' = "valid"]_vars

(* C6 amended: the fields are scanned in the fixed order unsuffixed, .1,   *)
(* .2, .3, standing for ses, sob, sse, hass whatever the target school; a  *)
(* ballot whose first populated field is the one standing for the target   *)
(* school is classified valid when its voter belongs to the target school  *)
(* and has not voted, and any other populated first field makes it         *)
(* wrong_school (the primary field is the target's only for ses).          *)
C6_FixedFieldOrder ==
  [][(Returned /\ FirstPopulated(row') # 0)
       => /\ (/\ FixedOrder[FirstPopulated(row')] = school
              /\ VoterSchool(row') = school
              /\ str(row'[cwid_column]) \notin voter_cwids)
               => outcome' = "valid"
          /\ FixedOrder[FirstPopulated(row')] # school
               => outcome' = "wrong_school"]_vars

C6_Witness ==
  /\ pc = "returned"
  /\ outcome = "valid"
  /\ school = "sse"
  /\ FirstPopulated(row) = 3
  /\ row[cwid_column] = 4

(* C7: the seen-voters set never loses an element, gains str(CWID) exactly *)
(* when a ballot is classified valid, is unchanged by an invalid,          *)
(* wrong_school or duplicate ballot, and its size is the number of ballots *)
(* classified valid so far.                                                *)
C7_SeenVotersGrowOnValid ==
  /\ [](Cardinality(voter_cwids) = ballots.valid)
  /\ [][/\ voter_cwids \subseteq voter_cwids'
        /\ Returned =>
             IF outcome' = "valid"
             THEN /\ str(row'[cwid_column]) \notin voter_cwids
                  /\ voter_cwids' = voter_cwids \cup {str(row'[cwid_column])}
             ELSE voter_cwids' = voter_cwids]_vars

C7_Witness ==
  /\ pc = "returned"
  /\ outcome = "wrong_school"
  /\ voter_cwids = {str(1), str(2)}
  /\ ballots.valid = 2
  /\ ballots.duplicate = 1

(* C8: a ballot with a populated nominee field whose voter resolves to a   *)
(* school other than the target, None included (voter absent from the      *)
(* roster or major in no directory), is classified wrong_school:           *)
(* wrong_school + 1 and tally, seen voters, other counters unchanged.      *)
C8_OtherSchoolVoterIsWrongSchool ==
  [][(/\ Called
      /\ FirstPopulated(row') # 0
      /\ VoterSchool(row') \in (Schools \cup {NoSchool}) \ {school})
       => /\ outcome' = "wrong_school"
          /\ voting_record' = [voting_record EXCEPT !.wrong_school = @ + 1]
          /\ votes' = votes
          /\ voter_cwids' = voter_cwids]_vars

C8_Witness ==
  /\ pc = "returned"
  /\ outcome = "wrong_school"
  /\ FirstPopulated(row) # 0
  /\ FixedOrder[FirstPopulated(row)] = school
  /\ VoterSchool(row) = NoSchool
  /\ row[cwid_column] = 6
  /\ ballots.valid = 1

(* C9: verify_vote never raises, whatever the ballot and the roster entry  *)
(* of its voter hold.                                                      *)
C9_NeverRaises == pc # "raised" /\ outcome # "raised"

----------------------------------------------------------------------------
(* Seat allocation *)

IsSet(x) == x # None

Candidates == Keys(votes)

Top(c) == {n \in Candidates : Get(votes, n) >= c}

(* The groups of the highest counts fill the seats exactly and a candidate *)
(* with a lower count is left.                                             *)
ExactFill(c) ==
  /\ c \in {Get(votes, n) : n \in Candidates}
  /\ Cardinality(Top(c)) = num_seats
  /\ \E n \in Candidates : Get(votes, n) < c

NextGroup(c) ==
  LET below == {Get(votes, n) : n \in Candidates} \cap 1..(c - 1)
      e == SelectSeq(votes, LAMBDA x : x.count = MaxOf(below))
  IN [i \in 1..Len(e) |-> e[i].candidate]

(* C4 as stated: determine_elected ends with tied set and remaining > 0,   *)
(* or with tied null and remaining null.                                   *)
C4_TiedMeansSeatsLeft ==
  pc = "done" =>
    \/ IsSet(tied_elected) /\ IsSet(remaining) /\ remaining[1] > 0
    \/ tied_elected = None /\ remaining = None

(* C4 amended: determine_elected ends with tied set and remaining =        *)
(* num_seats - len(elected) >= 0, or with tied null and remaining null;    *)
(* tied is set with remaining == 0 when the elected fill every seat and a  *)
(* group with a lower count is left.                                       *)
C4_TiedMeansGroupLeft ==
  pc = "done" =>
    \/ /\ IsSet(tied_elected) /\ IsSet(remaining)
       /\ remaining[1] >= 0
       /\ remaining[1] = num_seats - Len(elected)
    \/ tied_elected = None /\ remaining = None

C4_Witness ==
  /\ pc = "done"
  /\ IsSet(tied_elected)
  /\ remaining = Some(0)
  /\ Len(elected) = num_seats

(* C5 as stated: when the highest count groups fill exactly num_seats      *)
(* seats and candidates with lower counts remain, elected is those top     *)
(* candidates, remaining is null and tied is null.                         *)
C5_ExactFillLeavesNull ==
  \A c \in 1..MaxCount + 1 :
    (pc = "done" /\ ExactFill(c))
      => /\ Range(elected) = Top(c)
         /\ Len(elected) = num_seats
         /\ remaining = None
         /\ tied_elected = None

(* C5 amended: in that case elected is those top candidates, remaining is  *)
(* 0 and tied is the group of the next lower count.                        *)
C5_ExactFillLeavesNextGroup ==
  \A c \in 1..MaxCount + 1 :
    (pc = "done" /\ ExactFill(c))
      => /\ Range(elected) = Top(c)
         /\ Len(elected) = num_seats
         /\ remaining = Some(0)
         /\ tied_elected = Some(NextGroup(c))

C5_Witness ==
  /\ pc = "done"
  /\ num_seats = 2
  /\ votes = << [candidate |-> <<"A">>, count |-> 5],
                [candidate |-> <<"B">>, count |-> 5],
                [candidate |-> <<"C">>, count |-> 3] >>
  /\ elected = << <<"A">>, <<"B">> >>
  /\ remaining = Some(0)
  /\ tied_elected = Some(<< <<"C">> >>)

(* C10: at most num_seats candidates are elected, none twice, every        *)
(* elected candidate has strictly more votes than every candidate with     *)
(* votes who is not elected, and when tied is set it is disjoint from      *)
(* elected and larger than the remaining seat count.                       *)
C10_ElectedAreStrictTop ==
  pc = "done" =>
    /\ Len(elected) <= num_seats
    /\ \A i, j \in 1..Len(elected) : i # j => elected[i] # elected[j]
    /\ Range(elected) \subseteq Candidates
    /\ \A e \in Range(elected) : \A n \in Candidates \ Range(elected) :
         Get(votes, e) > Get(votes, n)
    /\ IsSet(tied_elected) =>
         /\ Range(elected) \cap Range(tied_elected[1]) = {}
         /\ Len(tied_elected[1]) > remaining[1]

C10_Witness ==
  /\ pc = "done"
  /\ Len(elected) = 1
  /\ remaining = Some(1)
  /\ IsSet(tied_elected)
  /\ Len(tied_elected[1]) = 2
  /\ Cardinality(Candidates) = 3

====
